---------------------------- MODULE Spec2Model ----------------------------
(***************************************************************************)
(* A model of htsqs: the SQS subscriber (subscriber/subscriber.go) with    *)
(* its pollers, its supervising goroutine and its Consume/Stop callers,    *)
(* and the SNS batch publisher (publisher/sns/sns.go).                     *)
(***************************************************************************)
EXTENDS Integers, Sequences, FiniteSets, TLC

(***************************************************************************)
(* Bounds of the model.                                                    *)
(***************************************************************************)
\* Largest positive Config.NumConsumers a caller passes to New.
MaxNumConsumers == 2
\* Largest Config.MaxMessagesPerBatch a caller passes to New.
MaxPerBatch == 2
\* Number of ReceiveMessage calls the transport fails, and number of messages
\* the queue holds, for a pool of a configured size.
MaxFailures == 2
MaxItems == 2
\* The same for a pool whose Config.NumConsumers is not positive.
DefaultPoolFailures == 1
DefaultPoolItems == 1
\* Largest number of messages given to PublishBatch.
MaxMsgs == 25
\* Number of Consume/Stop calls made on the Subscriber, each by its own goroutine.
MaxCalls == 3
\* Largest attempt number for which the backoff duration is computed.
MaxAttempt == 6

(***************************************************************************)
(* Program constants.                                                      *)
(***************************************************************************)
defaultNumConsumers == 3
\* constants.MaxBatchSize: SNS takes at most 10 messages in one batch.
MaxBatchSize == 10

Nil == 0
\* The calling goroutines; caller c makes the c-th call to begin.
Callers == 1 .. MaxCalls
MaxMessagesValues == {Nil, MaxPerBatch}
\* Poller ids: the worker ids 1..NumConsumers of the largest pool.
Workers == 1 .. (IF defaultNumConsumers > MaxNumConsumers THEN defaultNumConsumers ELSE MaxNumConsumers)

ErrAlreadyStopped == "SQS subscriber is already stopped"
ErrAlreadyRunning == "SQS subscriber is already running"

VARIABLES
    \* Config as given to New, and Subscriber.cfg after defaultSubscriberConfig
    cfgNumConsumers, cfgMaxMessages, numConsumers,
    \* Subscriber: the two latches and the completion channel (capacity 1)
    stopped, consumed, stop, stopClosed,
    \* Consume's locals shared with the goroutines it starts
    messages, msgCap, msgCloses, errCh, errCap, errCloses, wg,
    \* callers of Consume and Stop: position, call made, loop index, result; the
    \* number of calls begun
    cpc, ccall, ci, cres, calls,
    \* pollers: position, fetched batch, items of it pushed so far, backoff attempt
    ppc, batch, sent, attempt,
    \* supervising goroutine: position
    spc,
    \* the transport: failures and items it still has to deliver
    failsLeft, itemsLeft, nextItem,
    \* history: latch wins, goroutines started, successful returns, per-poller
    \* failed fetches and errors pushed, a panic of the process
    consumeWins, spawned, consumeOk, stopWins, stopOk, nFail, nErr, panicked,
    \* history: per poller, the handles pushed for its current batch and whether
    \* the stop latch was set when the fetch of that batch returned
    pushed, lateStop,
    \* history: per poller, the durations (in seconds, without jitter) it slept
    sleeps,
    \* the batch publisher: position, the msgs argument, PublishBatch's locals,
    \* the PublishBatchWithContext calls made so far, the outputs they returned
    \* and the returned error
    pubPc, msgs, start, end, numPublishedMessages, submitted, responses,
    publishResult, successCount, errorCount, fatal

subVars == <<cfgNumConsumers, cfgMaxMessages, numConsumers, stopped, consumed, stop,
             stopClosed, messages, msgCap, msgCloses, errCh, errCap, errCloses, wg,
             cpc, ccall, ci, cres, calls, ppc, batch, sent, attempt, spc,
             failsLeft, itemsLeft, nextItem, consumeWins, spawned, consumeOk, stopWins,
             stopOk, nFail, nErr, panicked, pushed, lateStop, sleeps>>
pubVars == <<pubPc, msgs, start, end, numPublishedMessages, submitted, responses,
             publishResult, successCount, errorCount, fatal>>
vars == <<subVars, pubVars>>

(***************************************************************************)
(* atomicBool                                                              *)
(***************************************************************************)
\* A load that never sees the value set.
isSetNever(b) == FALSE
\* atomic.LoadInt32(b) != 0
isSet(b) == b # 0

\* A setTrue that does not compare: every caller is told it set the value.
setTrueNoCompare(b) == TRUE
\* setTrue succeeds (returns nil) iff the compare-and-swap finds 0.
setTrueOk(b) == b = 0

(***************************************************************************)
(* New, defaultSubscriberConfig                                            *)
(***************************************************************************)
defaultSubscriberConfig(n) == IF n = 0 THEN defaultNumConsumers ELSE n

\* messagesPerBatchPerConsumer of Consume
messagesPerBatchPerConsumer(m) == IF m # Nil THEN m ELSE 1

\* The most items one ReceiveMessage returns: MaxNumberOfMessages, 1 if unset.
FetchLimit == IF cfgMaxMessages # Nil THEN cfgMaxMessages ELSE 1

Pollers == 1 .. numConsumers

InitPub ==
    /\ pubPc = "idle"
    /\ msgs = <<>>
    /\ start = 0
    /\ end = 0
    /\ numPublishedMessages = 0
    /\ submitted = <<>>
    /\ responses = <<>>
    /\ publishResult = << >>
    /\ successCount = 0
    /\ errorCount = 0
    /\ fatal = "nil"

InitSub(ns, ms, fails, items) ==
    /\ cfgNumConsumers \in ns
    /\ cfgMaxMessages \in ms
    /\ numConsumers = defaultSubscriberConfig(cfgNumConsumers)
    /\ stopped = 0
    /\ consumed = 0
    /\ stop = <<>>
    /\ stopClosed = FALSE
    /\ messages = <<>>
    /\ msgCap = 0
    /\ msgCloses = 0
    /\ errCh = <<>>
    /\ errCap = 0
    /\ errCloses = 0
    /\ wg = 0
    /\ cpc = [c \in Callers |-> "idle"]
    /\ ccall = [c \in Callers |-> "none"]
    /\ ci = [c \in Callers |-> 0]
    /\ cres = [c \in Callers |-> "none"]
    /\ calls = 0
    /\ ppc = [p \in Workers |-> "none"]
    /\ batch = [p \in Workers |-> <<>>]
    /\ sent = [p \in Workers |-> 0]
    /\ attempt = [p \in Workers |-> 0]
    /\ spc = "none"
    /\ failsLeft = fails
    /\ itemsLeft = items
    /\ nextItem = 1
    /\ consumeWins = 0
    /\ spawned = 0
    /\ consumeOk = 0
    /\ stopWins = 0
    /\ stopOk = 0
    /\ nFail = [p \in Workers |-> 0]
    /\ nErr = [p \in Workers |-> 0]
    /\ panicked = FALSE
    /\ pushed = [p \in Workers |-> <<>>]
    /\ lateStop = [p \in Workers |-> FALSE]
    /\ sleeps = [p \in Workers |-> <<>>]

Init ==
    /\ \/ InitSub(1 .. MaxNumConsumers, MaxMessagesValues, MaxFailures, MaxItems)
       \/ InitSub(-1 .. 0, MaxMessagesValues, DefaultPoolFailures, DefaultPoolItems)
    /\ InitPub

(***************************************************************************)
(* Subscriber.Consume, as run by caller c                                  *)
(***************************************************************************)
callerVars == <<cpc, ccall, ci, cres, calls>>
cfgVars == <<cfgNumConsumers, cfgMaxMessages, numConsumers>>
chanVars == <<messages, msgCap, msgCloses, errCh, errCap, errCloses>>
pollerVars == <<ppc, batch, sent, attempt, nFail, nErr, pushed, lateStop, sleeps>>
envVars == <<failsLeft, itemsLeft, nextItem>>
stopChVars == <<stop, stopClosed>>

\* A caller invokes Consume():
\* if s.stopped.isSet() { return nil, nil, errors.New("... already stopped") }
ConsumeCheckStopped(c) ==
    /\ ~panicked
    /\ cpc[c] = "idle"
    /\ calls = c - 1
    /\ calls' = c
    /\ ccall' = [ccall EXCEPT ![c] = "Consume"]
    /\ IF isSet(stopped)
         THEN /\ cpc' = [cpc EXCEPT ![c] = "done"]
              /\ cres' = [cres EXCEPT ![c] = ErrAlreadyStopped]
         ELSE /\ cpc' = [cpc EXCEPT ![c] = "consume_cas"]
              /\ cres' = [cres EXCEPT ![c] = "pending"]
    /\ UNCHANGED <<ci, cfgVars, stopped, consumed, stopChVars, chanVars, wg,
                   pollerVars, spc, envVars, consumeWins, spawned, consumeOk, stopWins,
                   stopOk, panicked, pubVars>>

\* if s.consumed.setTrue() != nil { return ... "already running" }, then the two
\* make(chan ...): a negative capacity panics.
ConsumeSetConsumed(c) ==
    /\ ~panicked
    /\ cpc[c] = "consume_cas"
    /\ IF setTrueOk(consumed)
         THEN /\ consumed' = 1
              /\ consumeWins' = consumeWins + 1
              /\ LET mcap == messagesPerBatchPerConsumer(cfgMaxMessages) * numConsumers
                 IN IF mcap < 0 \/ numConsumers < 0
                      THEN /\ panicked' = TRUE
                           /\ cpc' = [cpc EXCEPT ![c] = "panic"]
                           /\ UNCHANGED <<chanVars, ci>>
                      ELSE /\ panicked' = FALSE
                           /\ messages' = <<>>
                           /\ msgCap' = mcap
                           /\ errCh' = <<>>
                           /\ errCap' = numConsumers
                           /\ UNCHANGED <<msgCloses, errCloses>>
                           /\ ci' = [ci EXCEPT ![c] = 1]
                           /\ cpc' = [cpc EXCEPT ![c] = "consume_spawn"]
              /\ cres' = cres
         ELSE /\ cpc' = [cpc EXCEPT ![c] = "done"]
              /\ cres' = [cres EXCEPT ![c] = ErrAlreadyRunning]
              /\ UNCHANGED <<consumed, consumeWins, chanVars, ci, panicked>>
    /\ UNCHANGED <<ccall, calls, cfgVars, stopped, stopChVars, wg, pollerVars, spc, envVars,
                   spawned, consumeOk, stopWins, stopOk, pubVars>>

\* A spawn loop that does not register the poller with the WaitGroup.
WgAddNone(w) == w
\* wg.Add(1)
WgAdd(w) == w + 1

\* for i := 1; i <= s.cfg.NumConsumers; i++ { wg.Add(1); go func(...) }, and
\* after the loop the go func() of the supervising task and
\* return messages, errCh, nil.
ConsumeSpawn(c) ==
    /\ ~panicked
    /\ cpc[c] = "consume_spawn"
    /\ IF ci[c] <= numConsumers
         THEN /\ wg' = WgAdd(wg)
              /\ ppc' = [ppc EXCEPT ![ci[c]] = "check"]
              /\ spawned' = spawned + 1
              /\ ci' = [ci EXCEPT ![c] = @ + 1]
              /\ UNCHANGED <<cpc, cres, consumeOk, spc>>
         ELSE /\ spc' = "wait"
              /\ cpc' = [cpc EXCEPT ![c] = "done"]
              /\ cres' = [cres EXCEPT ![c] = "nil"]
              /\ consumeOk' = consumeOk + 1
              /\ UNCHANGED <<wg, ppc, spawned, ci>>
    /\ UNCHANGED <<ccall, calls, cfgVars, stopped, consumed, stopChVars, chanVars,
                   batch, sent, attempt, nFail, nErr, pushed, lateStop, sleeps, envVars, consumeWins,
                   stopWins, stopOk, panicked, pubVars>>

(***************************************************************************)
(* Subscriber.Stop, as run by caller c                                     *)
(***************************************************************************)
\* A caller invokes Stop():
\* if err := s.stopped.setTrue(); err != nil { return ... "already stopped" }
StopSetStopped(c) ==
    /\ ~panicked
    /\ cpc[c] = "idle"
    /\ calls = c - 1
    /\ calls' = c
    /\ ccall' = [ccall EXCEPT ![c] = "Stop"]
    /\ IF setTrueOk(stopped)
         THEN /\ stopped' = 1
              /\ stopWins' = stopWins + 1
              /\ cpc' = [cpc EXCEPT ![c] = "stop_recv"]
              /\ cres' = [cres EXCEPT ![c] = "pending"]
         ELSE /\ cpc' = [cpc EXCEPT ![c] = "done"]
              /\ cres' = [cres EXCEPT ![c] = ErrAlreadyStopped]
              /\ UNCHANGED <<stopped, stopWins>>
    /\ UNCHANGED <<ci, cfgVars, consumed, stopChVars, chanVars, wg,
                   pollerVars, spc, envVars, consumeWins, spawned, consumeOk, stopOk,
                   panicked, pubVars>>

\* return <-s.stop: a buffered value, or the zero value (nil) of a closed
\* channel; the receive blocks while the channel is empty and open.
StopReceive(c) ==
    /\ ~panicked
    /\ cpc[c] = "stop_recv"
    /\ \/ /\ Len(stop) > 0
          /\ cres' = [cres EXCEPT ![c] = Head(stop)]
          /\ stop' = Tail(stop)
       \/ /\ Len(stop) = 0
          /\ stopClosed
          /\ cres' = [cres EXCEPT ![c] = "nil"]
          /\ stop' = stop
    /\ cpc' = [cpc EXCEPT ![c] = "done"]
    /\ stopOk' = stopOk + 1
    /\ UNCHANGED <<ccall, ci, calls, cfgVars, stopped, consumed, stopClosed, chanVars, wg,
                   pollerVars, spc, envVars, consumeWins, spawned, consumeOk, stopWins,
                   panicked, pubVars>>

(***************************************************************************)
(* The poller goroutine p started by Consume (worker p)                    *)
(***************************************************************************)
Min2(a, b) == IF a < b THEN a ELSE b

\* The handle Consume builds for a fetched item: &SQSMessage{sub: s, rawMessage: msg}
Handle(item) == [sub |-> "s", rawMessage |-> item]

\* Items first .. first+k-1 of the queue, in order.
Items(first, k) == [j \in 1 .. k |-> first + j - 1]

\* defer wg.Done(), run when the poller leaves its loop.
PollerExitDone(w) == w - 1

\* for !s.stopped.isSet() { msgs, err = s.sqs.ReceiveMessage(...): the loop
\* condition; the poller either issues the next fetch or leaves the loop.
PollerCheck(p) ==
    /\ ~panicked
    /\ ppc[p] = "check"
    /\ IF isSet(stopped)
         THEN /\ ppc' = [ppc EXCEPT ![p] = "done"]
              /\ wg' = PollerExitDone(wg)
         ELSE /\ ppc' = [ppc EXCEPT ![p] = "fetching"]
              /\ wg' = wg
    /\ pushed' = [pushed EXCEPT ![p] = <<>>]
    /\ lateStop' = [lateStop EXCEPT ![p] = FALSE]
    /\ UNCHANGED <<batch, sent, attempt, nFail, nErr, sleeps, callerVars, cfgVars, stopped,
                   consumed, stopChVars, chanVars, spc, envVars, consumeWins, spawned,
                   consumeOk, stopWins, stopOk, panicked, pubVars>>

\* ReceiveMessage returns an error: msgs, err = ... leaves no messages in msgs.
FetchFails(p) ==
    /\ ~panicked
    /\ ppc[p] = "fetching"
    /\ failsLeft > 0
    /\ failsLeft' = failsLeft - 1
    /\ nFail' = [nFail EXCEPT ![p] = @ + 1]
    /\ ppc' = [ppc EXCEPT ![p] = "senderr"]
    /\ batch' = [batch EXCEPT ![p] = <<>>]
    /\ sent' = [sent EXCEPT ![p] = 0]
    /\ UNCHANGED <<attempt, nErr, pushed, lateStop, sleeps, itemsLeft, nextItem, callerVars,
                   cfgVars, stopped,
                   consumed, stopChVars, chanVars, wg, spc, consumeWins, spawned,
                   consumeOk, stopWins, stopOk, panicked, pubVars>>

\* A poller that goes back to the loop condition with items of its batch unpushed.
AfterPushRecheck(k, n) == "check"
\* A poller that issues the next fetch without reading the stop latch.
AfterPushFetch(k, n) == IF n < k THEN "push" ELSE "fetching"
\* Where the poller goes with a fetched batch of k items of which n are pushed.
AfterPush(k, n) == IF n < k THEN "push" ELSE "check"

\* ReceiveMessage returns k items, 0 <= k <= MaxNumberOfMessages.
FetchReturns(p) ==
    /\ ~panicked
    /\ ppc[p] = "fetching"
    /\ \E k \in 0 .. Min2(FetchLimit, itemsLeft) :
          /\ batch' = [batch EXCEPT ![p] = Items(nextItem, k)]
          /\ sent' = [sent EXCEPT ![p] = 0]
          /\ pushed' = [pushed EXCEPT ![p] = <<>>]
          /\ lateStop' = [lateStop EXCEPT ![p] = isSet(stopped)]
          /\ nextItem' = nextItem + k
          /\ itemsLeft' = itemsLeft - k
          /\ ppc' = [ppc EXCEPT ![p] = AfterPush(k, 0)]
    /\ UNCHANGED <<attempt, nFail, nErr, sleeps, failsLeft, callerVars, cfgVars, stopped,
                   consumed, stopChVars, chanVars, wg, spc, consumeWins, spawned,
                   consumeOk, stopWins, stopOk, panicked, pubVars>>

\* backoffCounter := backoff.Backoff{Factor: 1, Min: time.Second,
\* Max: 30 * time.Second, Jitter: true}, durations in seconds.
BackoffFactor == 1
BackoffMin == 1
BackoffMax == 30

RECURSIVE Pow(_, _)
Pow(b, n) == IF n = 0 THEN 1 ELSE b * Pow(b, n - 1)

\* A backoff that starts at the ceiling and falls back to the floor.
ForAttemptShrinking(a) == IF a = 0 THEN BackoffMax ELSE BackoffMin
\* The duration backoffCfg.Duration() returns for attempt a, without jitter:
\* Min * Factor^a, kept within [Min, Max].  With jitter the value is drawn
\* between Min and that product, which for Factor 1 is Min itself.
ForAttempt(a) ==
    LET d == BackoffMin * Pow(BackoffFactor, a)
    IN IF d < BackoffMin THEN BackoffMin ELSE IF d > BackoffMax THEN BackoffMax ELSE d

\* backoffCfg.Duration() advances the attempt counter of the poller's own copy
\* of the backoff counter.
Duration(a) == a + 1

\* A poller that returns after reporting a failed fetch.
AfterErrorReturn == "done"
\* continue: after a failed fetch the poller goes back to the loop condition.
AfterError == "check"

\* if err != nil { errCh <- err; time.Sleep(backoffCfg.Duration()); continue }:
\* the send blocks while the channel is full and panics if it is closed.
PollerSendErr(p) ==
    /\ ~panicked
    /\ ppc[p] = "senderr"
    /\ IF errCloses > 0
         THEN /\ panicked' = TRUE
              /\ UNCHANGED <<errCh, nErr, attempt, sleeps, ppc>>
         ELSE /\ Len(errCh) < errCap
              /\ errCh' = Append(errCh, p)
              /\ nErr' = [nErr EXCEPT ![p] = @ + 1]
              /\ sleeps' = [sleeps EXCEPT ![p] = Append(@, ForAttempt(attempt[p]))]
              /\ attempt' = [attempt EXCEPT ![p] = Duration(@)]
              /\ ppc' = [ppc EXCEPT ![p] = AfterError]
              /\ panicked' = panicked
    /\ UNCHANGED <<batch, sent, pushed, lateStop, nFail, messages, msgCap, msgCloses, errCap,
                   errCloses, callerVars, cfgVars, stopped, consumed, stopChVars, wg,
                   spc, envVars, consumeWins, spawned, consumeOk, stopWins, stopOk,
                   pubVars>>

\* messages <- &SQSMessage{...} for the next item of the batch: blocks while
\* the channel is full, panics if it is closed.
PollerPush(p) ==
    /\ ~panicked
    /\ ppc[p] = "push"
    /\ IF msgCloses > 0
         THEN /\ panicked' = TRUE
              /\ UNCHANGED <<messages, sent, pushed, ppc>>
         ELSE /\ Len(messages) < msgCap
              /\ messages' = Append(messages, Handle(batch[p][sent[p] + 1]))
              /\ pushed' = [pushed EXCEPT ![p] = Append(@, Handle(batch[p][sent[p] + 1]))]
              /\ sent' = [sent EXCEPT ![p] = @ + 1]
              /\ ppc' = [ppc EXCEPT ![p] = AfterPush(Len(batch[p]), sent[p] + 1)]
              /\ panicked' = panicked
    /\ UNCHANGED <<batch, attempt, nFail, nErr, lateStop, sleeps, msgCap, msgCloses, errCh, errCap,
                   errCloses, callerVars, cfgVars, stopped, consumed, stopChVars, wg,
                   spc, envVars, consumeWins, spawned, consumeOk, stopWins, stopOk,
                   pubVars>>

(***************************************************************************)
(* The supervising goroutine started by Consume                            *)
(***************************************************************************)
\* A supervising task that does not wait for the pollers.
WaitNoJoin(w) == TRUE
\* wg.Wait() returns when the counter is zero.
WaitDone(w) == w = 0

SupWait ==
    /\ ~panicked
    /\ spc = "wait"
    /\ WaitDone(wg)
    /\ spc' = "close_messages"
    /\ UNCHANGED <<callerVars, cfgVars, stopped, consumed, stopChVars, chanVars, wg,
                   pollerVars, envVars, consumeWins, spawned, consumeOk, stopWins,
                   stopOk, panicked, pubVars>>

\* A supervising task that does not close the error channel.
AfterCloseMessagesSignal == "send_stop"
\* close(errCh) follows close(messages).
AfterCloseMessages == "close_errCh"

\* close(messages)
SupCloseMessages ==
    /\ ~panicked
    /\ spc = "close_messages"
    /\ msgCloses' = msgCloses + 1
    /\ panicked' = (msgCloses > 0)
    /\ spc' = AfterCloseMessages
    /\ UNCHANGED <<callerVars, cfgVars, stopped, consumed, stopChVars, messages, msgCap,
                   errCh, errCap, errCloses, wg, pollerVars, envVars, consumeWins,
                   spawned, consumeOk, stopWins, stopOk, pubVars>>

\* close(errCh)
SupCloseErrCh ==
    /\ ~panicked
    /\ spc = "close_errCh"
    /\ errCloses' = errCloses + 1
    /\ panicked' = (errCloses > 0)
    /\ spc' = "send_stop"
    /\ UNCHANGED <<callerVars, cfgVars, stopped, consumed, stopChVars, messages, msgCap,
                   msgCloses, errCh, errCap, wg, pollerVars, envVars, consumeWins,
                   spawned, consumeOk, stopWins, stopOk, pubVars>>

\* Capacity of s.stop: make(chan error, 1) in New.
StopCap == 1

\* s.stop <- nil
SupSendStop ==
    /\ ~panicked
    /\ spc = "send_stop"
    /\ IF stopClosed
         THEN /\ panicked' = TRUE
              /\ UNCHANGED <<stop, spc>>
         ELSE /\ Len(stop) < StopCap
              /\ stop' = Append(stop, "nil")
              /\ spc' = "close_stop"
              /\ panicked' = panicked
    /\ UNCHANGED <<callerVars, cfgVars, stopped, consumed, stopClosed, chanVars, wg,
                   pollerVars, envVars, consumeWins, spawned, consumeOk, stopWins,
                   stopOk, pubVars>>

\* close(s.stop)
SupCloseStop ==
    /\ ~panicked
    /\ spc = "close_stop"
    /\ stopClosed' = TRUE
    /\ panicked' = stopClosed
    /\ spc' = "done"
    /\ UNCHANGED <<callerVars, cfgVars, stopped, consumed, stop, chanVars, wg,
                   pollerVars, envVars, consumeWins, spawned, consumeOk, stopWins,
                   stopOk, pubVars>>

(***************************************************************************)
(* The application receiving from the channels Consume returned            *)
(***************************************************************************)
RecvMessage ==
    /\ ~panicked
    /\ consumeOk > 0
    /\ Len(messages) > 0
    /\ messages' = Tail(messages)
    /\ UNCHANGED <<msgCap, msgCloses, errCh, errCap, errCloses, callerVars, cfgVars,
                   stopped, consumed, stopChVars, wg, pollerVars, spc, envVars,
                   consumeWins, spawned, consumeOk, stopWins, stopOk, panicked, pubVars>>

RecvError ==
    /\ ~panicked
    /\ consumeOk > 0
    /\ Len(errCh) > 0
    /\ errCh' = Tail(errCh)
    /\ UNCHANGED <<messages, msgCap, msgCloses, errCap, errCloses, callerVars, cfgVars,
                   stopped, consumed, stopChVars, wg, pollerVars, spc, envVars,
                   consumeWins, spawned, consumeOk, stopWins, stopOk, panicked, pubVars>>

(***************************************************************************)
(* The subscriber's specification                                          *)
(***************************************************************************)
CallerStep(c) ==
    \/ ConsumeCheckStopped(c)
    \/ ConsumeSetConsumed(c)
    \/ ConsumeSpawn(c)
    \/ StopSetStopped(c)
    \/ StopReceive(c)

PollerStep(p) ==
    \/ PollerCheck(p)
    \/ FetchFails(p)
    \/ FetchReturns(p)
    \/ PollerSendErr(p)
    \/ PollerPush(p)

SupervisorStep ==
    \/ SupWait
    \/ SupCloseMessages
    \/ SupCloseErrCh
    \/ SupSendStop
    \/ SupCloseStop

Next ==
    \/ \E c \in Callers : CallerStep(c)
    \/ \E p \in Workers : PollerStep(p)
    \/ SupervisorStep
    \/ RecvMessage
    \/ RecvError

Spec == Init /\ [][Next]_vars

(***************************************************************************)
(* The subscriber under fair scheduling: every goroutine that can take a   *)
(* step eventually takes one and every ReceiveMessage call returns.  The   *)
(* application is not obliged to make a call or to receive.                *)
(***************************************************************************)
InitFair ==
    /\ InitSub(1 .. 1, MaxMessagesValues, MaxFailures, MaxItems)
    /\ InitPub

CallInProgress(c) ==
    \/ ConsumeSetConsumed(c)
    \/ ConsumeSpawn(c)
    \/ StopReceive(c)

\* The pool's goroutines and the calls in progress are scheduled fairly.
Fairness ==
    /\ \A c \in Callers : WF_vars(CallInProgress(c))
    /\ \A p \in Workers : WF_vars(PollerStep(p))
    /\ WF_vars(SupervisorStep)

SpecFair == InitFair /\ [][Next]_vars /\ Fairness

\* As SpecFair, with an application that keeps receiving from both channels.
SpecFairRecv == SpecFair /\ WF_vars(RecvMessage) /\ WF_vars(RecvError)

(***************************************************************************)
(* Claims about the subscriber                                             *)
(***************************************************************************)
StopCalls == {c \in Callers : ccall[c] = "Stop"}
ConsumeCalls == {c \in Callers : ccall[c] = "Consume"}
Returned(c) == cpc[c] = "done"
ReturnedError(c) == Returned(c) /\ cres[c] \in {ErrAlreadyStopped, ErrAlreadyRunning}
ReturnedNil(c) == Returned(c) /\ cres[c] = "nil"
AllPollersExited == \A p \in Pollers : ppc[p] = "done"
HandlesOf(b) == [j \in 1 .. Len(b) |-> Handle(b[j])]

\* C1: a Stop() that is the first call made on a freshly constructed
\* Subscriber (Consume() was never called) has returned, with a non-nil
\* error: it is never left waiting for the completion signal.
C1_StopBeforeConsumeReturnsError ==
    (calls >= 1 /\ ccall[1] = "Stop") => ReturnedError(1)

\* The pool's own goroutines: the pollers and the supervising task.
PoolStep == SupervisorStep \/ \E p \in Workers : PollerStep(p)

\* C2: a Stop() call that set the stop latch after a successful Consume()
\* terminates without the application receiving from the output or the error
\* channel: until it has returned, the Stop() call itself or a goroutine of
\* the pool (each fetch call returning) can take a step.
C2_StopTerminates ==
    \A c \in Callers :
        (cpc[c] = "stop_recv" /\ consumeOk > 0) =>
            ENABLED (StopReceive(c) \/ PoolStep)

\* C3: at most one Consume() call wins the start latch and returns nil, the
\* pollers are spawned at most once, and every other Consume() call that has
\* returned has returned an error.
C3_AtMostOneConsumeSucceeds ==
    /\ consumeWins <= 1
    /\ consumeOk <= 1
    /\ Cardinality({c \in ConsumeCalls : cpc[c] \in {"consume_spawn", "panic"} \/ ReturnedNil(c)}) <= 1
    /\ spawned <= (IF numConsumers > 0 THEN numConsumers ELSE 0)
    /\ \A c \in ConsumeCalls : Returned(c) => (ReturnedNil(c) \/ ReturnedError(c))

C3_Witness ==
    \E c, d \in ConsumeCalls :
        /\ ReturnedNil(c)
        /\ Returned(d) /\ cres[d] = ErrAlreadyRunning
        /\ spawned = numConsumers
        /\ StopCalls # {}

\* C4: among the Stop() calls made, exactly one wins the stop latch; every other
\* one has returned "already stopped" as soon as it is made, also while the
\* winner is still waiting for the pollers to exit.
C4_ExactlyOneStopWins ==
    /\ stopWins <= 1
    /\ (StopCalls # {}) => stopWins = 1
    /\ Cardinality({c \in StopCalls : cpc[c] = "stop_recv" \/ ReturnedNil(c)}) = stopWins
    /\ \A c \in StopCalls :
          (cpc[c] = "stop_recv" \/ ReturnedNil(c))
              \/ (Returned(c) /\ cres[c] = ErrAlreadyStopped)

C4_Witness ==
    \E c, d \in StopCalls :
        /\ cpc[c] = "stop_recv"
        /\ ~AllPollersExited
        /\ spawned = numConsumers
        /\ Returned(d) /\ cres[d] = ErrAlreadyStopped

\* C5: once a Stop() has returned nil, the output channel and the error channel
\* are closed, each was closed exactly once, and every poller has left its loop,
\* so that none pushes to either channel any more.
C5_ClosedAfterStop ==
    (\E c \in StopCalls : ReturnedNil(c)) =>
        /\ msgCloses = 1
        /\ errCloses = 1
        /\ AllPollersExited
        /\ spawned = numConsumers
        /\ \A c \in Callers : cpc[c] # "consume_spawn"

C5_Witness ==
    /\ \E c \in StopCalls : ReturnedNil(c)
    /\ numConsumers = 2
    /\ nextItem > 1
    /\ failsLeft < MaxFailures

\* C6: the output and error channels are closed only when every poller has been
\* spawned and has left its loop: no poller is at or before a send to a closed
\* channel.
C6_NoSendOnClosedChannel ==
    (msgCloses > 0 \/ errCloses > 0) =>
        /\ AllPollersExited
        /\ spawned = numConsumers
        /\ \A c \in Callers : cpc[c] # "consume_spawn"

C6_Witness ==
    /\ msgCloses = 1
    /\ errCloses = 0
    /\ numConsumers = 2
    /\ Len(messages) > 0
    /\ Len(errCh) > 0

\* C7: when a poller is back at its loop condition after a successful fetch of
\* k items, it has pushed exactly the k handles of those items, in order, each
\* bound to the pool, also when the stop latch was set while the fetch was in
\* flight; while it is pushing, it has pushed the handles of the first items.
C7_EveryFetchedItemPushed ==
    \A p \in Workers :
        /\ ppc[p] = "check" => pushed[p] = HandlesOf(batch[p])
        /\ ppc[p] = "push" =>
              /\ sent[p] < Len(batch[p])
              /\ pushed[p] = HandlesOf(SubSeq(batch[p], 1, sent[p]))
        /\ \A j \in 1 .. Len(pushed[p]) : pushed[p][j].sub = "s"

C7_Witness ==
    \E p \in Workers :
        /\ ppc[p] = "check"
        /\ lateStop[p]
        /\ Len(batch[p]) = 2
        /\ Len(pushed[p]) = 2

C8_Safety ==
    \A p \in Workers :
        \* one error pushed per failed fetch, by the poller whose fetch failed
        /\ nErr[p] = nFail[p] - (IF ppc[p] = "senderr" THEN 1 ELSE 0)
        /\ Cardinality({j \in 1 .. Len(errCh) : errCh[j] = p}) <= nErr[p]
        \* a failed fetch pushes no handle
        /\ ppc[p] = "senderr" => (batch[p] = <<>> /\ pushed[p] = <<>>)
        \* a poller leaves its loop only with the stop latch set
        /\ ppc[p] = "done" => isSet(stopped)

\* C8: every failed fetch makes its poller push exactly one error onto the
\* error channel and no handle onto the output channel; the poller leaves its
\* loop only when the stop latch is set, and with the errors received it
\* issues another fetch unless the stop latch is set.
C8_FetchErrorsNotFatal ==
    /\ []C8_Safety
    /\ \A p \in Workers :
          (ppc[p] = "senderr") ~> (ppc[p] = "fetching" \/ isSet(stopped))

\* Two failures in a row of one poller, then a successful fetch whose item is
\* on the output channel: two errors were pushed.
C8_Witness ==
    \E p \in Workers :
        /\ nFail[p] = 2
        /\ nErr[p] = 2
        /\ ~isSet(stopped)
        /\ ppc[p] = "check"
        /\ Len(pushed[p]) > 0

\* C9: whatever Config.NumConsumers is given to New, the pool has
\* numConsumers >= 1, a successful Consume() has spawned exactly numConsumers
\* pollers, and the channels have a non-negative capacity (Consume does not
\* panic allocating them).
C9_NumConsumersAtLeastOne ==
    /\ numConsumers >= 1
    /\ consumeOk > 0 => spawned = numConsumers
    /\ \A c \in Callers : cpc[c] # "panic"

\* C14: the durations a poller sleeps after its failed fetches, without
\* jitter, never decrease, start at the minimum of 1 s and stay within the
\* ceiling of 30 s; so does the duration computed for any attempt number.
C14_BackoffMonotoneAndCapped ==
    /\ \A p \in Workers :
          /\ \A j \in 1 .. Len(sleeps[p]) :
                /\ BackoffMin <= sleeps[p][j]
                /\ sleeps[p][j] <= BackoffMax
                /\ j > 1 => sleeps[p][j - 1] <= sleeps[p][j]
          /\ Len(sleeps[p]) > 0 => sleeps[p][1] = BackoffMin
    /\ ForAttempt(0) = BackoffMin
    /\ \A a \in 0 .. MaxAttempt :
          /\ ForAttempt(a) <= ForAttempt(a + 1)
          /\ ForAttempt(a) <= BackoffMax

\* A poller has slept twice after two failures in a row, with no successful
\* fetch in between.
C14_Witness ==
    \E p \in Workers :
        /\ Len(sleeps[p]) = 2
        /\ nFail[p] = 2
        /\ nextItem = 1
        /\ ppc[p] = "fetching"

\* What a step leaves alone when it starts nothing.
StartsNothing ==
    /\ spawned' = spawned
    /\ wg' = wg
    /\ ppc' = ppc
    /\ spc' = spc
    /\ consumeWins' = consumeWins
    /\ stopWins' = stopWins

\* C15: neither latch goes back from set to unset; a Consume() or Stop() made
\* with the stop latch set returns "already stopped" and starts nothing, also
\* when the start latch is set too; a Consume() that finds only the start
\* latch set returns "already running" and starts nothing.
C15_StoppedPoolUnusable ==
    [][ /\ stopped # 0 => stopped' # 0
        /\ consumed # 0 => consumed' # 0
        /\ \A c \in Callers :
              /\ (cpc[c] = "idle" /\ cpc'[c] # "idle" /\ stopped # 0) =>
                    /\ cpc'[c] = "done"
                    /\ cres'[c] = ErrAlreadyStopped
                    /\ StartsNothing
              /\ (cpc[c] = "idle" /\ ccall'[c] = "Consume" /\ stopped = 0 /\ consumed # 0) =>
                    cpc'[c] = "consume_cas"
              /\ (cpc[c] = "consume_cas" /\ cpc'[c] # "consume_cas" /\ consumed # 0) =>
                    /\ cpc'[c] = "done"
                    /\ cres'[c] = ErrAlreadyRunning
                    /\ StartsNothing
      ]_vars

\* A Consume() succeeded and a Stop() won the stop latch: the Consume() made
\* after it, with both latches set, was refused with "already stopped".
C15_Witness ==
    /\ consumed # 0
    /\ stopped # 0
    /\ \E c, d, e \in Callers :
          /\ c < d /\ d < e
          /\ ccall[c] = "Consume" /\ ReturnedNil(c)
          /\ ccall[d] = "Stop" /\ cres[d] \in {"pending", "nil"}
          /\ ccall[e] = "Consume" /\ Returned(e) /\ cres[e] = ErrAlreadyStopped

\* A fetch call is issued only from the loop condition, read with the stop
\* latch unset, and an in-flight fetch ends only by returning.
FetchGated ==
    \A p \in Workers :
        /\ (ppc[p] # "fetching" /\ ppc'[p] = "fetching") =>
              (ppc[p] = "check" /\ stopped = 0)
        /\ (ppc[p] = "fetching" /\ ppc'[p] # "fetching") =>
              (FetchFails(p) \/ FetchReturns(p))

C17_BackoffResetAfterSuccess ==
    \A p \in Workers :
        /\ (ppc[p] \in {"push", "check"} /\ batch[p] # <<>>) => attempt[p] = 0
        /\ \A j \in 1 .. Len(sleeps[p]) : sleeps[p][j] = ForAttempt(0)
        /\ attempt[p] <= nFail[p]

C18_Safety ==
    \* the supervising task acts only once every poller has left its loop
    /\ spc \in {"close_messages", "close_errCh", "send_stop", "close_stop", "done"} =>
          AllPollersExited
    \* output channel, then error channel, then the completion signal
    /\ spc = "close_messages" => (msgCloses = 0 /\ errCloses = 0)
    /\ spc = "close_errCh" => (msgCloses = 1 /\ errCloses = 0)
    /\ spc \in {"send_stop", "close_stop", "done"} => (msgCloses = 1 /\ errCloses = 1)
    \* the send of the completion signal finds room: it never blocks or panics
    /\ spc \in {"none", "wait", "close_messages", "close_errCh", "send_stop"} =>
          (stop = <<>> /\ ~stopClosed /\ stopOk = 0)
    \* the signal is delivered once
    /\ Len(stop) + stopOk <= 1
    /\ ~panicked
    /\ \A c \in StopCalls : Returned(c) => (ReturnedNil(c) \/ cres[c] = ErrAlreadyStopped)

\* C18: once every poller has left its loop the supervising task closes the
\* output channel, then the error channel, then delivers the completion signal
\* once without blocking, and the pending Stop() returns nil; none of this
\* needs the application to receive from either channel.
C18_SupervisorCompletesStop ==
    /\ []C18_Safety
    /\ AllPollersExited ~> (spc = "done")
    /\ \A c \in Callers :
          (cpc[c] = "stop_recv" /\ AllPollersExited) ~> ReturnedNil(c)

\* Stop() has returned nil with an item and an error still unreceived.
C18_Witness ==
    /\ \E c \in StopCalls : ReturnedNil(c)
    /\ spc = "done"
    /\ Len(messages) > 0
    /\ Len(errCh) > 0
    /\ numConsumers = 1

(***************************************************************************)
(* Publisher.PublishBatch                                                  *)
(***************************************************************************)
\* The messages given to PublishBatch: n messages with ids 1..n, of which the
\* one at position bad (if any) has Data that json.Marshal rejects.
Input(n, bad) == [i \in 1 .. n |-> [ID |-> i, Data |-> IF i = bad THEN "unserializable" ELSE "ok"]]

InitPublish ==
    /\ InitSub(1 .. 1, {Nil}, 0, 0)
    /\ \E n \in 0 .. MaxMsgs : \E bad \in 0 .. n : msgs = Input(n, bad)
    /\ pubPc = "call"
    /\ start = 0
    /\ end = 0
    /\ numPublishedMessages = 0
    /\ submitted = <<>>
    /\ responses = <<>>
    /\ publishResult = << >>
    /\ successCount = 0
    /\ errorCount = 0
    /\ fatal = "nil"

\* start, end = 0, constants.MaxBatchSize; if end > len(msgs) { end = len(msgs) }
PublishBatchBegin ==
    /\ pubPc = "call"
    /\ start' = 0
    /\ end' = Min2(MaxBatchSize, Len(msgs))
    /\ numPublishedMessages' = 0
    /\ pubPc' = "loop"
    /\ UNCHANGED <<msgs, submitted, responses, publishResult, successCount, errorCount,
                   fatal, subVars>>

\* The request entries built from msgs[start:end], in order.
RequestEntries(s, e) == [j \in 1 .. (e - s) |-> [Id |-> msgs[s + j].ID, Message |-> msgs[s + j].Data]]

\* A loop that never finds a serialization failure.
MarshalNeverFails(s, e) == FALSE
\* Whether json.Marshal fails on one of msgs[start:end].
MarshalFails(s, e) == \E i \in (s + 1) .. e : msgs[i].Data = "unserializable"

\* publishResult[id] = v
Put(r, id, v) == [i \in DOMAIN r \cup {id} |-> IF i = id THEN v ELSE r[i]]

\* The result map after the ids of seq ids are recorded with value v, in order.
RECURSIVE PutAll(_, _, _)
PutAll(r, ids, v) == IF ids = <<>> THEN r ELSE PutAll(Put(r, Head(ids), v), Tail(ids), v)

IdsOf(entries) == [j \in 1 .. Len(entries) |-> entries[j].Id]

\* The PublishBatchOutput values the transport returns for a request: every
\* entry succeeded, every entry failed, the first failed and the others
\* succeeded, or an empty output (the test's mock).
Responses(entries) ==
    { [Failed |-> <<>>, Successful |-> IdsOf(entries)],
      [Failed |-> IdsOf(entries), Successful |-> <<>>],
      [Failed |-> IdsOf(SubSeq(entries, 1, Min2(1, Len(entries)))),
       Successful |-> IdsOf(SubSeq(entries, 2, Len(entries)))],
      [Failed |-> <<>>, Successful |-> <<>>] }

\* A loop that starts the next chunk one message late.
NextStartSkip(e) == e + 1
\* start = end
NextStart(e) == e

\* end += constants.MaxBatchSize; if end > len(msgs) { end = len(msgs) }
NextEnd(e) == Min2(e + MaxBatchSize, Len(msgs))

\* A loop that records a rejected entry as published.
RecordFailedAsNull(r, failed) == PutAll(r, failed, "nil")
\* for _, errEntry := range response.Failed { publishResult[*errEntry.Id] = errors.New(errMsg) }
RecordFailed(r, failed) == PutAll(r, failed, "error")

\* for _, successEntry := range response.Successful { publishResult[*successEntry.Id] = nil }
RecordSuccessful(r, successful) == PutAll(r, successful, "nil")

\* A loop that does not count the rejected entries.
ErrorCountSkip(n, failed) == n
\* errorCount++ for each entry of response.Failed
ErrorCountAfter(n, failed) == n + Len(failed)

\* successCount++ for each entry of response.Successful
SuccessCountAfter(n, successful) == n + Len(successful)

\* A loop that goes on after the submission call failed.
OnTransportErrorContinue == "loop"
\* response, err := p.sns.PublishBatchWithContext(ctx, input);
\* if err != nil { return publishResult, successCount, errorCount, err }
OnTransportError == "returned"

\* One iteration of for numPublishedMessages < len(msgs): the request is built
\* from msgs[start:end] and submitted, and the response is merged into the
\* results; a serialization or transport error returns at once.
PublishBatchChunk ==
    /\ pubPc = "loop"
    /\ numPublishedMessages < Len(msgs)
    /\ IF MarshalFails(start, end)
         THEN /\ fatal' = "marshal error"
              /\ pubPc' = "returned"
              /\ UNCHANGED <<submitted, responses, publishResult, successCount, errorCount,
                             numPublishedMessages, start, end>>
         ELSE LET requestEntries == RequestEntries(start, end)
              IN /\ submitted' = Append(submitted, requestEntries)
                 /\ \/ /\ fatal' = "transport error"
                       /\ pubPc' = OnTransportError
                       /\ UNCHANGED <<responses, publishResult, successCount, errorCount,
                                      numPublishedMessages, start, end>>
                    \/ \E response \in Responses(requestEntries) :
                          /\ responses' = Append(responses, response)
                          /\ publishResult' = RecordSuccessful(RecordFailed(publishResult, response.Failed),
                                                               response.Successful)
                          /\ errorCount' = ErrorCountAfter(errorCount, response.Failed)
                          /\ successCount' = SuccessCountAfter(successCount, response.Successful)
                          /\ numPublishedMessages' = numPublishedMessages + Len(requestEntries)
                          /\ start' = NextStart(end)
                          /\ end' = NextEnd(end)
                          /\ UNCHANGED <<fatal, pubPc>>
    /\ UNCHANGED <<msgs, subVars>>

\* return publishResult, successCount, errorCount, err: the function's own err
\* is never assigned (the loop's err are declared with :=) and is nil.
PublishBatchReturn ==
    /\ pubPc = "loop"
    /\ ~(numPublishedMessages < Len(msgs))
    /\ pubPc' = "returned"
    /\ fatal' = "nil"
    /\ UNCHANGED <<msgs, start, end, numPublishedMessages, submitted, responses,
                   publishResult, successCount, errorCount, subVars>>

NextPublish ==
    \/ PublishBatchBegin
    \/ PublishBatchChunk
    \/ PublishBatchReturn

SpecPublish == InitPublish /\ [][NextPublish]_vars

(***************************************************************************)
(* Claims about the batch publisher                                        *)
(***************************************************************************)
CeilDiv(n, d) == (n + d - 1) \div d

\* The ids of the messages at the 0-based input positions [from, to).
InputIds(from, to) == [j \in 1 .. (to - from) |-> msgs[from + j].ID]

RECURSIVE Concat(_)
Concat(ss) == IF ss = <<>> THEN <<>> ELSE Head(ss) \o Concat(Tail(ss))

\* C10: the j-th submission call (j = 0, 1, ...) carries exactly the messages at
\* the input positions [j*MaxBatchSize, min((j+1)*MaxBatchSize, N)), in input
\* order, so it has between 1 and MaxBatchSize entries; and when PublishBatch
\* returns without a serialization or transport failure it has issued exactly
\* ceil(N / MaxBatchSize) calls, whose entries together are the input.
C10_ChunksInOrder ==
    /\ \A j \in 1 .. Len(submitted) :
          /\ IdsOf(submitted[j])
                = InputIds((j - 1) * MaxBatchSize, Min2(j * MaxBatchSize, Len(msgs)))
          /\ Len(submitted[j]) \in 1 .. MaxBatchSize
    /\ (pubPc = "returned" /\ fatal = "nil") =>
          /\ Len(submitted) = CeilDiv(Len(msgs), MaxBatchSize)
          /\ Concat([j \in 1 .. Len(submitted) |-> IdsOf(submitted[j])])
                = InputIds(0, Len(msgs))

\* 25 messages, submitted in calls of 10, 10 and 5.
C10_Witness ==
    /\ pubPc = "returned"
    /\ fatal = "nil"
    /\ Len(msgs) = 25
    /\ Len(submitted) = 3
    /\ Len(submitted[1]) = 10
    /\ Len(submitted[2]) = 10
    /\ Len(submitted[3]) = 5

\* The ids of the input.
InputIdSet == {msgs[i].ID : i \in 1 .. Len(msgs)}

\* The ids a sequence of outputs reports as failed, and as successful.
ReportedFailed(rs) == {id \in InputIdSet : \E j \in 1 .. Len(rs) : \E k \in 1 .. Len(rs[j].Failed) : rs[j].Failed[k] = id}
ReportedSuccessful(rs) == {id \in InputIdSet : \E j \in 1 .. Len(rs) : \E k \in 1 .. Len(rs[j].Successful) : rs[j].Successful[k] = id}

\* The result map that records the outcomes reported by the outputs rs.
ExpectedResult(rs) ==
    [id \in ReportedFailed(rs) \cup ReportedSuccessful(rs) |->
        IF id \in ReportedFailed(rs) THEN "error" ELSE "nil"]

RECURSIVE CountFailed(_)
CountFailed(rs) == IF rs = <<>> THEN 0 ELSE Len(Head(rs).Failed) + CountFailed(Tail(rs))

RECURSIVE CountSuccessful(_)
CountSuccessful(rs) == IF rs = <<>> THEN 0 ELSE Len(Head(rs).Successful) + CountSuccessful(Tail(rs))

\* The number of entries of the first n submitted chunks.
RECURSIVE EntriesOf(_)
EntriesOf(n) == IF n = 0 THEN 0 ELSE Len(submitted[n]) + EntriesOf(n - 1)

\* The results PublishBatch holds are those of the outputs received so far.
ResultsAccumulated ==
    /\ publishResult = ExpectedResult(responses)
    /\ errorCount = CountFailed(responses)
    /\ successCount = CountSuccessful(responses)

\* C11: the result map PublishBatch returns has no id that is not in the input,
\* so it is no larger than the input, and every id of every chunk whose
\* submission call returned without a transport error is a key of it, mapped to
\* null or to an error.
C11_ResultIdsAreInputIds ==
    pubPc = "returned" =>
        /\ DOMAIN publishResult \subseteq InputIdSet
        /\ Cardinality(DOMAIN publishResult) <= Len(msgs)
        /\ \A j \in 1 .. Len(responses) : \A k \in 1 .. Len(submitted[j]) :
              /\ submitted[j][k].Id \in DOMAIN publishResult
              /\ publishResult[submitted[j][k].Id] \in {"nil", "error"}

\* C12: a message whose payload cannot be serialized is never submitted, and
\* neither is any message of its chunk or of a later chunk: PublishBatch
\* returns at once with the serialization error, and the result map and the
\* counts are those of the chunks submitted before.
C12_SerializationFailureAborts ==
    /\ \A j \in 1 .. Len(submitted) : \A k \in 1 .. Len(submitted[j]) :
          submitted[j][k].Message # "unserializable"
    /\ fatal = "marshal error" =>
          /\ pubPc = "returned"
          /\ \E i \in 1 .. Len(msgs) : msgs[i].Data = "unserializable"
    /\ \A i \in 1 .. Len(msgs) :
          (msgs[i].Data = "unserializable" /\ pubPc = "returned" /\ fatal # "transport error") =>
              /\ fatal = "marshal error"
              /\ Len(submitted) = (i - 1) \div MaxBatchSize
              /\ Len(responses) = Len(submitted)
              /\ ResultsAccumulated

\* The unserializable message is the 25th: two chunks were submitted, with
\* entries rejected and entries published, and the third never was.
C12_Witness ==
    /\ pubPc = "returned"
    /\ fatal = "marshal error"
    /\ Len(msgs) = 25
    /\ msgs[25].Data = "unserializable"
    /\ Len(submitted) = 2
    /\ errorCount = 1
    /\ successCount = 9

\* C13: when a submission call fails with a transport error, PublishBatch
\* returns at once with that error: the failed chunk is the last one submitted,
\* nothing of it is in the result map or in the counts, which are those of the
\* chunks submitted before.
C13_TransportErrorAborts ==
    /\ Len(responses) <= Len(submitted)
    /\ Len(responses) < Len(submitted) => fatal = "transport error"
    /\ fatal = "transport error" =>
          /\ pubPc = "returned"
          /\ Len(responses) = Len(submitted) - 1
          /\ numPublishedMessages = EntriesOf(Len(responses))
          /\ \A k \in 1 .. Len(submitted[Len(submitted)]) :
                submitted[Len(submitted)][k].Id \notin DOMAIN publishResult
          /\ ResultsAccumulated

\* The third submission call fails after two chunks with a rejected entry each.
C13_Witness ==
    /\ pubPc = "returned"
    /\ fatal = "transport error"
    /\ Len(submitted) = 3
    /\ errorCount = 2
    /\ successCount = 18

InputIdsUnique == \A i, j \in 1 .. Len(msgs) : msgs[i].ID = msgs[j].ID => i = j

\* The j-th output reports every id of the j-th chunk exactly once.
ReportsEachIdOnce(j) ==
    /\ Len(responses[j].Failed) + Len(responses[j].Successful) = Len(submitted[j])
    /\ \A k \in 1 .. Len(submitted[j]) :
          \/ \E f \in 1 .. Len(responses[j].Failed) : responses[j].Failed[f] = submitted[j][k].Id
          \/ \E f \in 1 .. Len(responses[j].Successful) : responses[j].Successful[f] = submitted[j][k].Id

\* C20: with unique input ids and a transport that reports every submitted id
\* exactly once, at every return of PublishBatch successCount + errorCount is
\* the number of keys of the result map, which is the number of messages of
\* the chunks submitted successfully; successCount is the number of keys
\* mapped to null and errorCount the number mapped to an error.
C20_CountsMatchResultMap ==
    (pubPc = "returned" /\ InputIdsUnique
        /\ \A j \in 1 .. Len(responses) : ReportsEachIdOnce(j)) =>
        /\ successCount + errorCount = Cardinality(DOMAIN publishResult)
        /\ Cardinality(DOMAIN publishResult) = EntriesOf(Len(responses))
        /\ successCount = Cardinality({id \in DOMAIN publishResult : publishResult[id] = "nil"})
        /\ errorCount = Cardinality({id \in DOMAIN publishResult : publishResult[id] = "error"})

\* A fatal return after two chunks, one wholly rejected and one with its first
\* entry rejected.
C20_Witness ==
    /\ pubPc = "returned"
    /\ fatal = "transport error"
    /\ Len(responses) = 2
    /\ \A j \in 1 .. Len(responses) : ReportsEachIdOnce(j)
    /\ errorCount = 11
    /\ successCount = 9

=============================================================================
